---- MODULE Spec2Model ----
(***************************************************************************)
(* A model of the binero (Takuzu) solver: Grid::parse, Grid::solve and the *)
(* helpers they call (src/src/grid.rs), the Cell type (src/src/cell.rs)    *)
(* and the reading of the input file into lines (src/src/main.rs).         *)
(*                                                                         *)
(* A grid cell is a GridCell = Option<Cell>.  Option::None is modelled by  *)
(* Undet; Some(Cell::None), Some(Cell::Zero) and Some(Cell::One) by the    *)
(* three values CellNone, Zero and One.  Indices are 0-based as in the     *)
(* source; lanes are sequences.                                            *)
(***************************************************************************)
EXTENDS Naturals, Sequences, FiniteSets, TLC

VARIABLES text, input, grid, stack, pc, result

vars == <<text, input, grid, stack, pc, result>>

(***************************************************************************)
(* cell.rs                                                                 *)
(***************************************************************************)
Undet == "undet"
CellNone == "None"
Zero == "Zero"
One == "One"

\* Cell::iter(): vec![Self::None, Self::Zero, Self::One]
iter == <<CellNone, Zero, One>>

\* Cell::iter_some(): vec![Self::Zero, Self::One]
iter_some == <<Zero, One>>

\* impl ops::Not for Cell
Not(cell) ==
    CASE cell = CellNone -> CellNone
      [] cell = Zero -> One
      [] cell = One -> Zero

\* impl TryFrom<char> for Cell; "err" stands for Err(InvalidChar(c))
try_from(c) ==
    CASE c = "0" -> Zero
      [] c = "1" -> One
      [] c = "-" -> CellNone
      [] OTHER -> "err"

\* impl fmt::Display for Cell
cell_fmt(cell) ==
    CASE cell = Zero -> "0"
      [] cell = One -> "1"
      [] OTHER -> "-"

(***************************************************************************)
(* grid.rs: the data model and the lane queries                            *)
(***************************************************************************)
\* impl ops::Index for Grid: self[(i, j)]
At(g, i, j) == g.cells[i + 1][j + 1]

\* Grid::set: writes new at idx; the returned flag is old != new
set(g, i, j, new) == [g EXCEPT !.cells[i + 1][j + 1] = new]

\* Grid::line: the cells of row i, left to right
line(g, i) == g.cells[i + 1]

\* Grid::column: the cells of column j, top to bottom
column(g, j) == [k \in 1..g.height |-> g.cells[k][j + 1]]

Min(S) == CHOOSE x \in S : \A y \in S : x <= y

\* The Histogram built by find_count: one entry per Cell::iter() value
Histogram(lane) ==
    [cell \in {iter[k] : k \in 1..Len(iter)} |->
        Cardinality({p \in 1..Len(lane) : lane[p] = cell})]

\* Grid::find_count: the first value of Cell::iter() for which f answers
find_count(lane, f(_, _, _)) ==
    LET map == Histogram(lane)
        size == Len(lane)
        hits == {k \in 1..Len(iter) : f(map, size, iter[k]) # Undet}
    IN  IF hits = {} THEN Undet ELSE f(map, size, iter[Min(hits)])

\* Mutation of Unbalanced: a value that holds half of the lane already counts
UnbalancedAtHalf(map, size, cell) ==
    IF map[cell] >= (size \div 2) THEN cell ELSE Undet

\* The closure of check_lane: a value held by more than half of the lane
Unbalanced(map, size, cell) ==
    IF map[cell] > (size \div 2) THEN cell ELSE Undet

\* Grid::check_lane: TRUE for Ok(()), FALSE for Err(InvalidGrid)
check_lane(lane) ==
    /\ \A p \in 1..Len(lane) :
          p + 2 <= Len(lane) =>
             ~(lane[p] # Undet /\ lane[p] = lane[p + 1] /\ lane[p + 1] = lane[p + 2])
    /\ find_count(lane, Unbalanced) = Undet

\* Mutation of check_pair: the test lhs.is_none() is left out
check_pair_differs(lhs, rhs) ==
    {p \in 1..Len(lhs) : lhs[p] # rhs[p]} # {}

\* Grid::check_pair: TRUE for Ok(()), FALSE for Err(InvalidGrid)
check_pair(lhs, rhs) ==
    {p \in 1..Len(lhs) : lhs[p] = Undet \/ lhs[p] # rhs[p]} # {}

\* Grid::is_valid: TRUE for Ok(()), FALSE for Err(InvalidGrid)
is_valid(g) ==
    /\ \A i \in 0..(g.height - 1) :
          /\ check_lane(line(g, i))
          /\ \A i_pair \in (i + 1)..(g.height - 1) :
                check_pair(line(g, i), line(g, i_pair))
    /\ \A j \in 0..(g.width - 1) :
          /\ check_lane(column(g, j))
          /\ \A j_pair \in (j + 1)..(g.width - 1) :
                check_pair(column(g, j), column(g, j_pair))

\* Grid::get_empty: the first undetermined cell in row-major order, or <<>>
get_empty(g) ==
    LET empty == {<<i, j>> \in (0..(g.height - 1)) \X (0..(g.width - 1)) :
                     At(g, i, j) = Undet}
    IN  IF empty = {} THEN <<>>
        ELSE CHOOSE idx \in empty :
                \A other \in empty :
                    idx[1] < other[1] \/ (idx[1] = other[1] /\ idx[2] <= other[2])

(***************************************************************************)
(* grid.rs: constraint propagation                                         *)
(***************************************************************************)
\* Mutation of fill_cell: the value of the pair instead of its opposite
fill_cell_same(cell0, cell1) ==
    IF cell0 # Undet /\ cell1 # Undet /\ cell0 = cell1 THEN cell0 ELSE Undet

\* Grid::fill_cell: two equal determined cells force the opposite value
fill_cell(cell0, cell1) ==
    IF cell0 # Undet /\ cell1 # Undet /\ cell0 = cell1 THEN Not(cell0) ELSE Undet

\* The closure of fill_saturated: a value that already fills half of the lane
Saturated(map, size, cell) ==
    IF map[cell] >= size \div 2 THEN Not(cell) ELSE Undet

\* Grid::fill_saturated
fill_saturated(lane) == find_count(lane, Saturated)

\* The or_else chain of the line sweep: the value for the empty cell (i, j)
line_new(g, i, j, saturated) ==
    LET prev == IF j >= 2
                THEN fill_cell(At(g, i, j - 2), At(g, i, j - 1)) ELSE Undet
        next == IF j + 2 < g.width
                THEN fill_cell(At(g, i, j + 1), At(g, i, j + 2)) ELSE Undet
        around == IF j >= 1 /\ j + 1 < g.width
                  THEN fill_cell(At(g, i, j - 1), At(g, i, j + 1)) ELSE Undet
    IN  IF saturated # Undet THEN saturated
        ELSE IF prev # Undet THEN prev
        ELSE IF next # Undet THEN next
        ELSE around

\* The or_else chain of the column sweep: the value for the empty cell (i, j)
column_new(g, i, j, saturated) ==
    LET prev == IF i >= 2
                THEN fill_cell(At(g, i - 2, j), At(g, i - 1, j)) ELSE Undet
        next == IF i + 2 < g.height
                THEN fill_cell(At(g, i + 1, j), At(g, i + 2, j)) ELSE Undet
        around == IF i >= 1 /\ i + 1 < g.height
                  THEN fill_cell(At(g, i - 1, j), At(g, i + 1, j)) ELSE Undet
    IN  IF saturated # Undet THEN saturated
        ELSE IF prev # Undet THEN prev
        ELSE IF next # Undet THEN next
        ELSE around

\* Mutation of fill_target: every cell is written
fill_target_any(g, i, j) == At(g, i, j) \in {Undet, CellNone, Zero, One}

\* The guard of both sweeps: only a cell that is none is written
fill_target(g, i, j) == At(g, i, j) = Undet

\* The inner loop of the line sweep, from column j on
RECURSIVE fill_line(_, _, _, _)
fill_line(g, i, j, saturated) ==
    IF j >= g.width THEN g
    ELSE IF fill_target(g, i, j)
         THEN fill_line(set(g, i, j, line_new(g, i, j, saturated)), i, j + 1, saturated)
         ELSE fill_line(g, i, j + 1, saturated)

\* The line sweep, from row i on
RECURSIVE fill_lines(_, _)
fill_lines(g, i) ==
    IF i >= g.height THEN g
    ELSE fill_lines(fill_line(g, i, 0, fill_saturated(line(g, i))), i + 1)

\* The inner loop of the column sweep, from row i on
RECURSIVE fill_column(_, _, _, _)
fill_column(g, i, j, saturated) ==
    IF i >= g.height THEN g
    ELSE IF fill_target(g, i, j)
         THEN fill_column(set(g, i, j, column_new(g, i, j, saturated)), i + 1, j, saturated)
         ELSE fill_column(g, i + 1, j, saturated)

\* The column sweep, from column j on
RECURSIVE fill_columns(_, _)
fill_columns(g, j) ==
    IF j >= g.width THEN g
    ELSE fill_columns(fill_column(g, 0, j, fill_saturated(column(g, j))), j + 1)

\* Grid::fill_constraints: the grid after the two sweeps.  Every write is to
\* a cell that was none, so the returned flag (some set() saw old != new) is
\* TRUE exactly when the grid differs afterwards.
fill_constraints(g) == fill_columns(fill_lines(g, 0), 0)

(***************************************************************************)
(* grid.rs: heuristics                                                     *)
(***************************************************************************)
\* The closure of try_missings for one num_guess
AlmostWith(num_guess, map, size, cell) ==
    IF map[cell] > map[Not(cell)] /\ map[cell] + num_guess = (size \div 2)
    THEN cell ELSE Undet

Almost1(map, size, cell) == AlmostWith(1, map, size, cell)

\* Mutation of Almost2: the second round takes the lanes that are one short
Almost2OneShort(map, size, cell) == AlmostWith(1, map, size, cell)

Almost2(map, size, cell) == AlmostWith(2, map, size, cell)

\* One round of the num_guess loop of try_missings: the 0-based indices it
\* inserts into result, each with the value Some(!cell)
try_guess(lane, num_guess) ==
    LET almost == IF num_guess = 1 THEN find_count(lane, Almost1)
                  ELSE find_count(lane, Almost2)
        none_idx == {p \in 1..Len(lane) : lane[p] = Undet}
        filled == [p \in 1..Len(lane) |->
                      IF lane[p] = Undet THEN Not(almost) ELSE lane[p]]
        is_possible(i) ==
            IF num_guess = 1
            THEN check_lane([filled EXCEPT ![i] = almost])
            ELSE \E j \in none_idx \ {i} :
                    check_lane([filled EXCEPT ![i] = almost, ![j] = almost])
        forced == IF almost = Undet THEN {}
                  ELSE {i \in none_idx : ~is_possible(i)}
    IN  [k \in {i - 1 : i \in forced} |-> Not(almost)]

\* Grid::try_missings: the HashMap returned (later inserts replace earlier)
try_missings(lane) == try_guess(lane, 2) @@ try_guess(lane, 1)

\* The line loop of fill_heuristics, from row i on
RECURSIVE heur_lines(_, _)
heur_lines(g, i) ==
    IF i >= g.height THEN g
    ELSE LET res == try_missings(line(g, i))
         IN  heur_lines([g EXCEPT !.cells[i + 1] =
                            [p \in 1..g.width |->
                                IF (p - 1) \in DOMAIN res THEN res[p - 1] ELSE @[p]]],
                        i + 1)

\* The column loop of fill_heuristics, from column j on
RECURSIVE heur_columns(_, _)
heur_columns(g, j) ==
    IF j >= g.width THEN g
    ELSE LET res == try_missings(column(g, j))
         IN  heur_columns([g EXCEPT !.cells =
                              [k \in 1..g.height |->
                                  IF (k - 1) \in DOMAIN res
                                  THEN [@[k] EXCEPT ![j + 1] = res[k - 1]]
                                  ELSE @[k]]],
                          j + 1)

\* Grid::fill_heuristics: the grid after both loops.  Every key of
\* try_missings is a cell that was none and every value is Some, so the
\* returned flag is TRUE exactly when the grid differs afterwards.
fill_heuristics(g) == heur_columns(heur_lines(g, 0), 0)

(***************************************************************************)
(* grid.rs: Display and parse; main.rs: the input lines                    *)
(***************************************************************************)
\* impl fmt::Display for Grid: one row, cells separated by a space
RECURSIVE fmt_row(_, _)
fmt_row(row, j) ==
    IF j > Len(row) THEN <<>>
    ELSE <<IF row[j] = Undet THEN "-" ELSE cell_fmt(row[j])>>
         \o (IF j < Len(row) THEN <<" ">> ELSE <<>>)
         \o fmt_row(row, j + 1)

\* impl fmt::Display for Grid: rows separated by a line feed
RECURSIVE fmt_from(_, _)
fmt_from(g, i) ==
    IF i > g.height THEN <<>>
    ELSE fmt_row(g.cells[i], 1)
         \o (IF i < g.height THEN <<"\n">> ELSE <<>>)
         \o fmt_from(g, i + 1)

fmt(g) == fmt_from(g, 1)

\* BufRead::lines as main.rs calls it: the text cut at each line feed
RECURSIVE lines_from(_, _, _)
lines_from(t, k, cur) ==
    IF k > Len(t) THEN (IF cur = <<>> THEN <<>> ELSE <<cur>>)
    ELSE IF t[k] = "\n" THEN <<cur>> \o lines_from(t, k + 1, <<>>)
    ELSE lines_from(t, k + 1, Append(cur, t[k]))

lines(t) == lines_from(t, 1, <<>>)

is_whitespace(c) == c \in {" ", "\t", "\n"}

\* Mutation of take_while: the comment is not cut off
take_all(l, k) == SubSeq(l, k, Len(l))

\* take_while(|c| *c != '#'): the part of the line before a comment
RECURSIVE take_while(_, _)
take_while(l, k) ==
    IF k > Len(l) \/ l[k] = "#" THEN <<>>
    ELSE <<l[k]>> \o take_while(l, k + 1)

\* The cell of one character: '-' is Ok(None), the rest goes to try_from
parse_char(c) == IF c = "-" THEN Undet ELSE try_from(c)

\* One line of parse: the collected Result, ok with the cells of the line,
\* or not ok for the first character that try_from rejects
parse_line(l) ==
    LET chars == SelectSeq(take_while(l, 1), LAMBDA c : ~is_whitespace(c))
        vec == [k \in 1..Len(chars) |-> parse_char(chars[k])]
    IN  [ok |-> \A k \in 1..Len(vec) : vec[k] # "err", vec |-> vec]

NoGrid == [cells |-> <<>>, width |-> 0, height |-> 0]

Err(e) == [res |-> e, grid |-> NoGrid]

\* The end of parse: the height checks and is_valid
parse_end(g0) ==
    LET g == [g0 EXCEPT !.height = Len(g0.cells)]
    IN  IF g.height = 0 THEN Err("EmptyGrid")
        ELSE IF g.height % 2 # 0 THEN Err("OddDimension")
        ELSE IF ~is_valid(g) THEN Err("InvalidGrid")
        ELSE [res |-> "Ok", grid |-> g]

\* The loop of parse over the lines, from line k on
RECURSIVE parse_from(_, _, _)
parse_from(ls, k, g) ==
    IF k > Len(ls) THEN parse_end(g)
    ELSE LET parsed == parse_line(ls[k])
             vec == parsed.vec
         IN  IF ~parsed.ok THEN Err("InvalidChar")
             ELSE IF vec = <<>> THEN parse_from(ls, k + 1, g)
             ELSE IF g.cells = <<>>
                  THEN IF Len(vec) % 2 # 0 THEN Err("OddDimension")
                       ELSE parse_from(ls, k + 1,
                               [g EXCEPT !.width = Len(vec), !.cells = <<vec>>])
             ELSE IF Len(vec) # g.width THEN Err("WidthMismatch")
             ELSE parse_from(ls, k + 1, [g EXCEPT !.cells = Append(@, vec)])

\* Grid::parse
parse(ls) == parse_from(ls, 1, NoGrid)

(***************************************************************************)
(* The puzzle rules, stated on their own (not through the code above):     *)
(* what a solved grid and a completion of a puzzle are.                    *)
(***************************************************************************)
Values == {Zero, One}

NoTriple(lane) ==
    \A p \in 1..Len(lane) :
        p + 2 <= Len(lane) =>
            ~(lane[p] \in Values /\ lane[p + 1] = lane[p] /\ lane[p + 2] = lane[p])

CountOf(lane, v) == Cardinality({p \in 1..Len(lane) : lane[p] = v})

Balanced(lane) == \A v \in Values : 2 * CountOf(lane, v) = Len(lane)

FullLanes(n) == {l \in [1..n -> Values] : NoTriple(l) /\ Balanced(l)}

Transposed(rows, w) == [j \in 1..w |-> [i \in 1..Len(rows) |-> rows[i][j]]]

Rows(g) == g.cells

Columns(g) == Transposed(g.cells, g.width)

Distinct(lanes) ==
    \A a \in 1..Len(lanes), b \in 1..Len(lanes) : a # b => lanes[a] # lanes[b]

\* The solved grids of height h and width w
Solutions(h, w) ==
    {[cells |-> rows, width |-> w, height |-> h] :
        rows \in {r \in [1..h -> FullLanes(w)] :
                     /\ Distinct(r)
                     /\ Distinct(Transposed(r, w))
                     /\ \A j \in 1..w : Transposed(r, w)[j] \in FullLanes(h)}}

\* g is a grid of Zero, One and undetermined cells only
IsPuzzle(g) ==
    \A i \in 1..g.height, j \in 1..g.width : g.cells[i][j] \in Values \cup {Undet}

\* Every cell of g that is determined has the same value in s
Agrees(g, s) ==
    /\ g.height = s.height
    /\ g.width = s.width
    /\ \A i \in 1..g.height, j \in 1..g.width :
          g.cells[i][j] # Undet => s.cells[i][j] = g.cells[i][j]

(***************************************************************************)
(* The inputs                                                              *)
(***************************************************************************)
\* The longest raw input text, tried character by character
MaxText == 5

\* The most given cells of a puzzle on an otherwise empty grid
MaxGiven == 1

\* The most cells erased from a solved reference grid
MaxErased == 4

Chars == {"0", "1", "-", " ", "#", "x", "\n"}

RawTexts == UNION {[1..n -> Chars] : n \in 0..MaxText}

\* The <<height, width>> of the puzzles
Dims == {<<2, 2>>, <<2, 4>>, <<4, 2>>, <<4, 4>>, <<2, 6>>, <<6, 2>>, <<4, 6>>}

\* The <<height, width>> of the grids handed to fill_constraints on its own
FillDims == {<<4, 6>>, <<6, 4>>}

SolutionsOf == [d \in Dims \cup FillDims |-> Solutions(d[1], d[2])]

\* The valid full completions of g
Completions(g) ==
    IF <<g.height, g.width>> \in DOMAIN SolutionsOf
    THEN {s \in SolutionsOf[<<g.height, g.width>>] : Agrees(g, s)}
    ELSE {}

\* The subsets of S with at most n elements
RECURSIVE UpTo(_, _)
UpTo(S, n) ==
    IF n = 0 THEN {{}}
    ELSE LET smaller == UpTo(S, n - 1)
         IN  smaller \cup {s \cup {x} : s \in smaller, x \in S}

\* The puzzles of height h and width w whose given cells are those of given
Given(h, w, given) ==
    {[cells |-> [i \in 1..h |-> [j \in 1..w |->
                    IF <<i, j>> \in given THEN f[<<i, j>>] ELSE Undet]],
      width |-> w, height |-> h] : f \in [given -> Values]}

Sparse ==
    UNION {Given(d[1], d[2], given) :
              d \in Dims, given \in UpTo((1..6) \X (1..6), MaxGiven)}

\* A solved grid with the cells of erased made undetermined
Erase(s, erased) ==
    [s EXCEPT !.cells = [i \in 1..s.height |-> [j \in 1..s.width |->
                            IF <<i, j>> \in erased THEN Undet ELSE s.cells[i][j]]]]

\* The solved 4 x 4 grids whose first row and first column read 0 0 1 1
Reference ==
    {s \in SolutionsOf[<<4, 4>>] :
        /\ s.cells[1] = <<Zero, Zero, One, One>>
        /\ \A i \in 1..4 : s.cells[i][1] = s.cells[1][i]}

Erased ==
    {Erase(s, erased) : s \in Reference, erased \in UpTo((1..4) \X (1..4), MaxErased)}

Inputs == RawTexts \cup {fmt(g) : g \in Sparse \cup Erased}

(***************************************************************************)
(* The program: main.rs reads the text, parses it and solves the grid.     *)
(* solve is recursive through fill_bruteforce; stack holds one frame per   *)
(* fill_bruteforce call that is waiting for the solve of its clone: the    *)
(* caller's grid (self), the chosen cell (idx) and the position k of the   *)
(* value being tried in Cell::iter().  grid is the grid of the innermost   *)
(* solve.                                                                  *)
(***************************************************************************)
Init ==
    /\ text \in Inputs
    /\ input = NoGrid
    /\ grid = NoGrid
    /\ stack = <<>>
    /\ pc = "parse"
    /\ result = "none"

\* main.rs: grid::Grid::parse(reader.lines())?
Parse ==
    /\ pc = "parse"
    /\ LET r == parse(lines(text))
       IN  IF r.res = "Ok"
           THEN /\ input' = r.grid
                /\ grid' = r.grid
                /\ pc' = "constraints"
                /\ result' = result
           ELSE /\ result' = r.res
                /\ pc' = "exit"
                /\ UNCHANGED <<input, grid>>
    /\ UNCHANGED <<text, stack>>

\* solve: one turn of the inner loop
FillConstraints ==
    /\ pc = "constraints"
    /\ grid' = fill_constraints(grid)
    /\ pc' = IF grid' # grid THEN "constraints" ELSE "heuristics"
    /\ UNCHANGED <<text, input, stack, result>>

\* solve: the heuristics step of the outer loop
FillHeuristics ==
    /\ pc = "heuristics"
    /\ grid' = fill_heuristics(grid)
    /\ pc' = IF grid' # grid THEN "constraints" ELSE "valid"
    /\ UNCHANGED <<text, input, stack, result>>

\* solve: self.is_valid()? fails, the solve returns Err(InvalidGrid)
Invalid ==
    /\ pc = "valid"
    /\ ~is_valid(grid)
    /\ result' = "InvalidGrid"
    /\ pc' = "return"
    /\ UNCHANGED <<text, input, grid, stack>>

\* solve: the grid is valid and get_empty finds no cell, the solve returns Ok
Solved ==
    /\ pc = "valid"
    /\ is_valid(grid)
    /\ get_empty(grid) = <<>>
    /\ result' = "Ok"
    /\ pc' = "return"
    /\ UNCHANGED <<text, input, grid, stack>>

\* Mutation of branch_cell: the clone keeps the chosen cell undetermined
branch_undetermined(k) == Undet

\* The value fill_bruteforce tries at position k of its loop
branch_cell(k) == iter[k]

\* The number of values fill_bruteforce tries
branch_count == Len(iter)

\* solve calls fill_bruteforce(idx), which clones the grid, sets the first
\* value and calls solve on the clone
Bruteforce ==
    /\ pc = "valid"
    /\ is_valid(grid)
    /\ get_empty(grid) # <<>>
    /\ LET idx == get_empty(grid)
       IN  /\ stack' = Append(stack, [grid |-> grid, idx |-> idx, k |-> 1])
           /\ grid' = set(grid, idx[1], idx[2], branch_cell(1))
    /\ pc' = "constraints"
    /\ UNCHANGED <<text, input, result>>

\* fill_bruteforce: the solve of the clone is Ok; *self = grid, return Ok
\* (and with it the solve that called fill_bruteforce)
BranchOk ==
    /\ pc = "return"
    /\ stack # <<>>
    /\ result = "Ok"
    /\ stack' = SubSeq(stack, 1, Len(stack) - 1)
    /\ UNCHANGED <<text, input, grid, pc, result>>

\* fill_bruteforce: the solve of the clone failed and a value is left to try
NextBranch ==
    /\ pc = "return"
    /\ stack # <<>>
    /\ result # "Ok"
    /\ LET top == stack[Len(stack)]
       IN  /\ top.k < branch_count
           /\ stack' = [stack EXCEPT ![Len(stack)].k = top.k + 1]
           /\ grid' = set(top.grid, top.idx[1], top.idx[2], branch_cell(top.k + 1))
    /\ pc' = "constraints"
    /\ result' = "none"
    /\ UNCHANGED <<text, input>>

\* fill_bruteforce: every value failed, Err(NoSolution); self is untouched
NoSolution ==
    /\ pc = "return"
    /\ stack # <<>>
    /\ result # "Ok"
    /\ LET top == stack[Len(stack)]
       IN  /\ top.k >= branch_count
           /\ grid' = top.grid
    /\ stack' = SubSeq(stack, 1, Len(stack) - 1)
    /\ result' = "NoSolution"
    /\ UNCHANGED <<text, input, pc>>

\* The outermost solve returns to main
Return ==
    /\ pc = "return"
    /\ stack = <<>>
    /\ pc' = "exit"
    /\ UNCHANGED <<text, input, grid, stack, result>>

Next ==
    \/ Parse
    \/ FillConstraints
    \/ FillHeuristics
    \/ Invalid
    \/ Solved
    \/ Bruteforce
    \/ BranchOk
    \/ NextBranch
    \/ NoSolution
    \/ Return

Spec == Init /\ [][Next]_vars

\* The same program from before main has read its file: one initial state
InitLive ==
    /\ text = <<>>
    /\ input = NoGrid
    /\ grid = NoGrid
    /\ stack = <<>>
    /\ pc = "start"
    /\ result = "none"

\* main.rs: the file is opened and its text is what parse will read
Read ==
    /\ pc = "start"
    /\ text' \in Inputs
    /\ pc' = "parse"
    /\ UNCHANGED <<input, grid, stack, result>>

NextLive == Read \/ Next

\* The program is one sequential thread that runs until main has left: a
\* step that can be taken is taken.  This is weak fairness of NextLive with
\* its enabling condition written out: at every pc but "exit" the guards of
\* the actions cover all cases, so a step is enabled exactly while
\* pc # "exit".
Fairness == []<>(pc = "exit") \/ []<><<NextLive>>_vars

SpecLive == InitLive /\ [][NextLive]_vars /\ Fairness

(***************************************************************************)
(* is_valid on its own: the grid is drawn from every grid of Zero, One and *)
(* undetermined cells of the small sizes, valid or not, and from the 4 x 4 *)
(* grids with few determined cells; the one step calls is_valid on it.     *)
(***************************************************************************)
\* The most determined cells of a 4 x 4 grid handed to is_valid
MaxDetermined == 2

SmallDims == {<<2, 2>>, <<2, 4>>, <<4, 2>>}

\* Every grid of height h and width w
AnyGrids(h, w) ==
    {[cells |-> c, width |-> w, height |-> h] :
        c \in [1..h -> [1..w -> Values \cup {Undet}]]}

ValidInputs ==
    UNION {AnyGrids(d[1], d[2]) : d \in SmallDims}
    \cup UNION {Given(4, 4, given) : given \in UpTo((1..4) \X (1..4), MaxDetermined)}

InitValid ==
    /\ grid \in ValidInputs
    /\ pc = "is_valid"
    /\ result = "none"
    /\ text = <<>>
    /\ input = NoGrid
    /\ stack = <<>>

\* The call self.is_valid()
CheckValid ==
    /\ pc = "is_valid"
    /\ result' = IF is_valid(grid) THEN "Ok" ELSE "InvalidGrid"
    /\ pc' = "checked"
    /\ UNCHANGED <<text, input, grid, stack>>

SpecValid == InitValid /\ [][CheckValid]_vars

(***************************************************************************)
(* fill_constraints on its own: the grid is a solved 4 x 6 or 6 x 4 grid   *)
(* with the cells hidden where a few rows cross a few columns, so that it  *)
(* is valid and has a completion; the one step calls fill_constraints on   *)
(* it.  input keeps the grid before the call.                              *)
(***************************************************************************)
\* The most rows, and the most columns, that the hidden cells of a grid
\* handed to fill_constraints lie in
MaxSpan == 2

\* The solved grids whose first lane of length 6 reads 0 0 1 0 1 1 and whose
\* first lane of length 4 reads 0 1 0 1
FillSolved ==
    {s \in UNION {SolutionsOf[d] : d \in FillDims} :
        LET long == IF s.width = 6 THEN s.cells[1] ELSE Columns(s)[1]
            short == IF s.width = 6 THEN Columns(s)[1] ELSE s.cells[1]
        IN  /\ long = <<Zero, Zero, One, Zero, One, One>>
            /\ short = <<Zero, One, Zero, One>>}

FillInputs ==
    UNION {{Erase(s, rs \X cs) :
               rs \in UpTo(1..s.height, MaxSpan), cs \in UpTo(1..s.width, MaxSpan)} :
           s \in FillSolved}

InitFill ==
    /\ input \in FillInputs
    /\ grid = input
    /\ pc = "fill"
    /\ result = "none"
    /\ text = <<>>
    /\ stack = <<>>

\* The call self.fill_constraints()
Fill ==
    /\ pc = "fill"
    /\ grid' = fill_constraints(grid)
    /\ pc' = "filled"
    /\ UNCHANGED <<text, input, stack, result>>

SpecFill == InitFill /\ [][Fill]_vars

(***************************************************************************)
(* fill_heuristics on its own: the grid is valid and holds one lane of     *)
(* length 6 or more with any cells, as its first row, as its first column, *)
(* or as both; every other cell is undetermined.  The one step calls       *)
(* fill_heuristics on it.  input keeps the grid before the call.           *)
(***************************************************************************)
\* The longest lane handed to fill_heuristics
MaxLane == 8

LaneLengths == {n \in 6..MaxLane : n % 2 = 0}

\* The grid of height h and width w with lane as its first row (if across)
\* and as its first column (if down)
LaneGrid(lane, h, w, across, down) ==
    [cells |-> [i \in 1..h |-> [j \in 1..w |->
                    IF across /\ i = 1 THEN lane[j]
                    ELSE IF down /\ j = 1 THEN lane[i]
                    ELSE Undet]],
     width |-> w, height |-> h]

LaneGrids(n) ==
    UNION {{LaneGrid(lane, 2, n, TRUE, FALSE),
            LaneGrid(lane, n, 2, FALSE, TRUE),
            LaneGrid(lane, n, n, TRUE, TRUE)} :
           lane \in [1..n -> Values \cup {Undet}]}

InitHeur ==
    /\ input \in UNION {LaneGrids(n) : n \in LaneLengths}
    /\ is_valid(input)
    /\ grid = input
    /\ pc = "heur"
    /\ result = "none"
    /\ text = <<>>
    /\ stack = <<>>

\* The call self.fill_heuristics()
Heur ==
    /\ pc = "heur"
    /\ grid' = fill_heuristics(grid)
    /\ pc' = "heur_done"
    /\ UNCHANGED <<text, input, stack, result>>

SpecHeur == InitHeur /\ [][Heur]_vars

(***************************************************************************)
(* Properties.  The rules are restated here from the puzzle, not from the  *)
(* code: a lane is a row or a column of the grid.                          *)
(***************************************************************************)
Lanes(g) == {Rows(g)[i] : i \in 1..g.height} \cup {Columns(g)[j] : j \in 1..g.width}

TripleIn(lane) ==
    \E p \in 1..Len(lane) :
        /\ p + 2 <= Len(lane)
        /\ lane[p] # Undet
        /\ lane[p + 1] = lane[p]
        /\ lane[p + 2] = lane[p]

OverHalf(lane) == \E v \in Values : 2 * CountOf(lane, v) > Len(lane)

SameFull(a, b) == \A p \in 1..Len(a) : a[p] # Undet /\ a[p] = b[p]

TwoSame(lanes) ==
    \E a \in 1..Len(lanes), b \in 1..Len(lanes) : a # b /\ SameFull(lanes[a], lanes[b])

\* The three constraint families on a grid that may hold undetermined cells
RulesHold(g) ==
    /\ \A lane \in Lanes(g) : ~TripleIn(lane) /\ ~OverHalf(lane)
    /\ ~TwoSame(Rows(g))
    /\ ~TwoSame(Columns(g))

\* A fully solved grid: every cell Zero or One and all three families hold
IsSolved(g) ==
    /\ \A i \in 1..g.height, j \in 1..g.width : g.cells[i][j] \in Values
    /\ \A lane \in Lanes(g) : NoTriple(lane) /\ Balanced(lane)
    /\ Distinct(Rows(g))
    /\ Distinct(Columns(g))

\* Every cell determined in g has the same value in h
Preserved(g, h) ==
    \A i \in 1..g.height, j \in 1..g.width :
        g.cells[i][j] # Undet => h.cells[i][j] = g.cells[i][j]

\* parse accepted the text: a grid was produced and solve was called on it
Parsed == input # NoGrid

\* The outermost solve has returned to main
Returned == pc = "exit" /\ Parsed

SolvedOk == Returned /\ result = "Ok"

\* C1: whenever solve returns Ok on a parsed grid, every cell of the grid is
\* Zero or One, no lane has three consecutive equal cells, every lane is
\* half Zero and half One, and no two rows and no two columns are identical.
C1_Soundness == SolvedOk => IsSolved(grid)

\* C2: when the parsed grid has at least one valid full completion, solve
\* returns Ok, never NoSolution or InvalidGrid.
C2_Completeness == (Returned /\ Completions(input) # {}) => result = "Ok"

\* C2 witness: solve returned Ok on a puzzle with several completions, so
\* that propagation alone could not decide it.
C2_Witness ==
    /\ SolvedOk
    /\ Cardinality(Completions(input)) > 1

\* C3: when the parsed grid has exactly one valid completion, solve returns
\* Ok and leaves the grid that parsing the rendered completion gives.
C3_UniqueSolution ==
    (Returned /\ Cardinality(Completions(input)) = 1) =>
        /\ result = "Ok"
        /\ \A s \in Completions(input) :
              parse(lines(fmt(s))) = [res |-> "Ok", grid |-> grid]

\* C4: when the parsed grid has no valid completion, solve returns
\* NoSolution, and InvalidGrid is not what it returns.
C4_NoSolution == (Returned /\ Completions(input) = {}) => result = "NoSolution"

\* C5: a call of fill_constraints or of fill_heuristics keeps every
\* determined cell as it is, and a solve that returns Ok leaves a grid that
\* agrees with the parsed grid on every given cell.
C5_Monotone ==
    [][/\ pc \in {"constraints", "heuristics"} => Preserved(grid, grid')
       /\ (pc' = "exit" /\ result' = "Ok" /\ input' # NoGrid) => Preserved(input', grid')]_vars

\* C5 witness: solve returned Ok on a puzzle with given cells after
\* determining further cells.
C5_Witness ==
    /\ SolvedOk
    /\ grid # input
    /\ \E i \in 1..input.height, j \in 1..input.width : input.cells[i][j] # Undet

\* The text as the input format reads it: the line (from 0) of position k
LineOf(t, k) == Cardinality({m \in 1..(k - 1) : t[m] = "\n"})

\* Position k is at or after a '#' of its own line
InComment(t, k) == \E m \in 1..k : t[m] = "#" /\ LineOf(t, m) = LineOf(t, k)

\* Position k holds a token: not white space and not in a comment
IsToken(t, k) == t[k] \notin {" ", "\t", "\n"} /\ ~InComment(t, k)

TokensOf(t, n) == {k \in 1..Len(t) : IsToken(t, k) /\ LineOf(t, k) = n}

\* The elements of a set of numbers in increasing order
Sorted(S) ==
    [k \in 1..Cardinality(S) |-> CHOOSE x \in S : Cardinality({y \in S : y < x}) = k - 1]

\* The rows of the text: the tokens of each line that has any, in order
TextRows(t) ==
    LET ls == Sorted({n \in 0..Len(t) : TokensOf(t, n) # {}})
    IN  [r \in 1..Len(ls) |->
            LET ps == Sorted(TokensOf(t, ls[r]))
            IN  [c \in 1..Len(ps) |-> t[ps[c]]]]

TokenCell(tok) ==
    CASE tok = "0" -> Zero
      [] tok = "1" -> One
      [] OTHER -> Undet

RowsGrid(rows) ==
    [cells |-> [r \in 1..Len(rows) |-> [c \in 1..Len(rows[r]) |-> TokenCell(rows[r][c])]],
     width |-> Len(rows[1]), height |-> Len(rows)]

BadToken(rows) ==
    \E r \in 1..Len(rows) : \E c \in 1..Len(rows[r]) : rows[r][c] \notin {"0", "1", "-"}

Ragged(rows) == \E r \in 1..Len(rows) : Len(rows[r]) # Len(rows[1])

Odd(rows) == Len(rows) % 2 = 1 \/ \E r \in 1..Len(rows) : Len(rows[r]) % 2 = 1

WellFormed(rows) == rows # <<>> /\ ~BadToken(rows) /\ ~Ragged(rows) /\ ~Odd(rows)

\* The errors that match the text
Matching(rows) ==
    {e \in {"EmptyGrid", "WidthMismatch", "OddDimension", "InvalidChar", "InvalidGrid"} :
        \/ e = "EmptyGrid" /\ rows = <<>>
        \/ e = "WidthMismatch" /\ Ragged(rows)
        \/ e = "OddDimension" /\ Odd(rows)
        \/ e = "InvalidChar" /\ BadToken(rows)
        \/ e = "InvalidGrid" /\ WellFormed(rows) /\ ~RulesHold(RowsGrid(rows))}

\* parse has just accepted the text: solve is about to start on its grid
JustParsed == pc = "constraints" /\ stack = <<>> /\ grid = input

\* parse has rejected the text and main has left with the error
Rejected == pc = "exit" /\ ~Parsed

\* C6: parse returns Ok, with the grid of the rows, exactly when there is a
\* row, all rows have the same even length, their number is even, every
\* token is 0, 1 or -, and the grid keeps the rules; otherwise it returns
\* an error that matches and no grid is produced (main leaves before solve).
C6_Parse ==
    (JustParsed \/ Rejected) =>
        LET rows == TextRows(text)
        IN  IF WellFormed(rows) /\ RulesHold(RowsGrid(rows))
            THEN JustParsed /\ input = RowsGrid(rows)
            ELSE Rejected /\ result \in Matching(rows)

\* C6 witness: parse has rejected a text whose rows are well formed, for a
\* broken rule.
C6_Witness ==
    /\ Rejected
    /\ result = "InvalidGrid"
    /\ WellFormed(TextRows(text))

\* C7: rendering the grid of a solve that returned Ok and parsing the
\* rendered lines succeeds and gives the same grid.
C7_RoundTrip == SolvedOk => parse(lines(fmt(grid))) = [res |-> "Ok", grid |-> grid]

\* The clone that the fill_bruteforce call of frame n is solving
Clone(n) == IF n < Len(stack) THEN stack[n + 1].grid ELSE grid

\* C8: every branch that fill_bruteforce explores, at any depth, holds Zero
\* or One in the chosen cell, and nothing else.
C8_BranchValues ==
    \A n \in 1..Len(stack) :
        At(Clone(n), stack[n].idx[1], stack[n].idx[2]) \in Values

\* C9: on a grid of Zero, One and undetermined cells, is_valid fails exactly
\* when a lane has three consecutive determined equal cells, or a lane holds
\* more than half of one value, or two rows or two columns are fully
\* determined and identical (checked under SpecValid).
C9_IsValid == pc = "checked" => (result = "InvalidGrid" <=> ~RulesHold(grid))

\* C9 witness: is_valid fails on a grid whose only fault is a pair of
\* identical fully determined lanes.
C9_Witness ==
    /\ pc = "checked"
    /\ result = "InvalidGrid"
    /\ \A lane \in Lanes(grid) : ~TripleIn(lane) /\ ~OverHalf(lane)

\* C10: every valid full completion of a valid grid of Zero, One and
\* undetermined cells is still a completion of the grid after
\* fill_constraints: each cell it sets has the value of every completion
\* (checked under SpecFill).
C10_Forced == pc = "filled" => \A s \in Completions(input) : Agrees(grid, s)

\* C10 witness: on a grid with a completion, the column sweep of
\* fill_constraints has set a cell that the line sweep left undetermined,
\* in a column that held less than half of each value: a pair rule set it.
C10_Witness ==
    /\ pc = "filled"
    /\ Completions(input) # {}
    /\ \E i \in 1..input.height, j \in 1..input.width :
          LET swept == fill_lines(input, 0)
          IN  /\ swept.cells[i][j] = Undet
              /\ grid.cells[i][j] # Undet
              /\ \A v \in Values : 2 * CountOf(Columns(swept)[j], v) < input.height

\* The other of the two values
Other(v) == IF v = Zero THEN One ELSE Zero

\* The full lanes without a triple and with half of each value that keep
\* every determined cell of lane
LaneCompletions(lane) ==
    {c \in FullLanes(Len(lane)) :
        \A q \in 1..Len(lane) : lane[q] # Undet => c[q] = lane[q]}

\* In lane the surplus value Other(v) is 1 or 2 short of half the lane and
\* leads v, and no completion of the lane has the surplus value at p
ForcedIn(lane, p, v) ==
    LET short == (Len(lane) \div 2) - CountOf(lane, Other(v))
    IN  /\ lane[p] = Undet
        /\ short \in {1, 2}
        /\ CountOf(lane, Other(v)) > CountOf(lane, v)
        /\ \A c \in LaneCompletions(lane) : c[p] # Other(v)

\* C11: every cell that fill_heuristics sets on a valid grid receives Zero
\* or One, the deficient value of a lane through the cell in which the
\* other value is 1 or 2 short of half and leads, and no completion of that
\* lane holds the surplus value there.  The lane is the row as the call
\* found it, or the column as the column loop found it (checked under
\* SpecHeur).
C11_HeurForced ==
    pc = "heur_done" =>
        \A i \in 1..input.height, j \in 1..input.width :
            (input.cells[i][j] = Undet /\ grid.cells[i][j] # Undet) =>
                /\ grid.cells[i][j] \in Values
                /\ \/ ForcedIn(Rows(input)[i], j, grid.cells[i][j])
                   \/ ForcedIn(Columns(heur_lines(input, 0))[j], i, grid.cells[i][j])

\* C11 witness: fill_heuristics has set a cell of a row in which the
\* surplus value was 2 short of half.
C11_Witness ==
    /\ pc = "heur_done"
    /\ RulesHold(input)
    /\ \E i \in 1..input.height, j \in 1..input.width :
          /\ input.cells[i][j] = Undet
          /\ grid.cells[i][j] \in Values
          /\ CountOf(Rows(input)[i], Other(grid.cells[i][j])) + 2 = input.width \div 2

\* The number of undetermined cells of g
Undetermined(g) ==
    Cardinality({c \in (1..g.height) \X (1..g.width) : g.cells[c[1]][c[2]] = Undet})

\* solve has returned to main with one of its three results
SolveReturned == Returned /\ result \in {"Ok", "NoSolution", "InvalidGrid"}

\* C12: every solve of a parsed grid returns Ok, NoSolution or InvalidGrid;
\* a fill_constraints or fill_heuristics round that changes the grid leaves
\* fewer undetermined cells; every solve that fill_bruteforce starts runs on
\* a clone with fewer undetermined cells than the caller's grid; and the
\* recursion is never deeper than the number of undetermined cells of the
\* grid on which backtracking began (checked under SpecLive).
C12_Termination ==
    /\ [][/\ (pc \in {"constraints", "heuristics"} /\ grid' # grid) =>
                Undetermined(grid') < Undetermined(grid)
          /\ (pc \in {"valid", "return"} /\ pc' = "constraints") =>
                Undetermined(grid') < Undetermined(stack'[Len(stack')].grid)]_vars
    /\ [](stack # <<>> => Len(stack) <= Undetermined(stack[1].grid))
    /\ (Parsed ~> SolveReturned)

\* C12 witness: a solve started by fill_bruteforce inside another such solve
\* has failed, after propagation had changed its clone.
C12_Witness ==
    /\ Len(stack) >= 2
    /\ pc = "return"
    /\ result # "Ok"
    /\ Undetermined(grid) + 1 < Undetermined(stack[Len(stack)].grid)

====
